---- MODULE Spec2Model ----
(***************************************************************************)
(* Model of the value/equation engine of equation_processor.py: the        *)
(* variable allocator, the equation and plot stores, the Value algebra     *)
(* with its sample (initial) and float witness (float_initial) tracks, the *)
(* assertion primitives and the part of the geometric layer built on them. *)
(***************************************************************************)
EXTENDS Integers, Sequences, FiniteSets, TLC

VARIABLES current_var, equations, plots, compute_float_initial,
          values, points, lines, ret

vars == <<current_var, equations, plots, compute_float_initial,
          values, points, lines, ret>>

(***************************************************************************)
(* Bounds of the exploration and the inputs the client calls are drawn     *)
(* from.                                                                   *)
(***************************************************************************)
\* The client keeps at most MaxValues unknowns in a run.
MaxValues == 3

\* The client keeps at most MaxPoints free points and MaxLines lines.
MaxPoints == 1

MaxLines == 1

\* The client measures at most MaxDistances distances in a run.
MaxDistances == 1

\* The client records at most MaxPlots plots in a session.
MaxPlots == 1

\* Integer literals the client passes to i().
LitInts == {0, 3}

\* Integer literals the client passes to i() for an exponent.
PowInts == {-1, 0, 2}

\* Samples the client passes to new_var().
SampleInts == {0, 5}

\* Coordinates the client passes to FixedPoint().
FixedXs == {-1, 1}

FixedYs == {0}

\* (x, y) samples the client passes to FreePoint().
FreeSamples == {<<0, 2>>, <<1, 0>>}

\* Names the client passes to plot().
PlotNames == {"X"}

\* (n, d) pairs the client passes to q().
RationalArgs == {<<1, 2>>, <<-1, 2>>, <<1, 0>>}

(***************************************************************************)
(* Python values.  None, an int and a float are tagged records so that a   *)
(* field holding "int | Value | None" can be compared.                     *)
(***************************************************************************)
None == [tag |-> "None"]

int(n) == [tag |-> "int", n |-> n]

isinstance_int(x) == x.tag = "int"

isinstance_Value(x) == x.tag \in {"Value", "RationalValue"}

isinstance_RationalValue(x) == x.tag = "RationalValue"

\* A raised exception, as the outcome of an expression.
Raise(exc) == [tag |-> "raise", exc |-> exc]

IsRaise(x) == x.tag = "raise"

(***************************************************************************)
(* Floats.  A float that is an integer is tracked exactly (cls = "int").   *)
(* Any other float is tracked by class only: "pos" and "neg" are non-zero  *)
(* reals of that sign, "nz" is non-zero of unknown sign (or complex),      *)
(* "any" is a float of which nothing is known, zero included.              *)
(***************************************************************************)
Float(n) == [tag |-> "float", cls |-> "int", n |-> n]

FloatCls(c) == [tag |-> "float", cls |-> c, n |-> 0]

FIsZero(f) == f.cls = "int" /\ f.n = 0

FMaybeZero(f) == f.cls = "any"

\* Sign of a float: 1, -1, or 0 when zero or unknown.
FSign(f) ==
    IF f.cls = "int" THEN (IF f.n > 0 THEN 1 ELSE IF f.n < 0 THEN -1 ELSE 0)
    ELSE IF f.cls = "pos" THEN 1
    ELSE IF f.cls = "neg" THEN -1
    ELSE 0

\* The class-only float of a non-zero value with sign s (0: unknown sign).
FOfSign(s) == FloatCls(IF s > 0 THEN "pos" ELSE IF s < 0 THEN "neg" ELSE "nz")

RECURSIVE IntPow(_, _)
\* Python's a ** n on ints, n >= 0 (0 ** 0 = 1).
IntPow(a, n) == IF n <= 0 THEN 1 ELSE a * IntPow(a, n - 1)

IntAbs(a) == IF a < 0 THEN -a ELSE a

\* float(x) of an int.
float(x) == Float(x.n)

\* -a on floats.
FNeg(a) ==
    IF a.cls = "int" THEN Float(-a.n)
    ELSE IF a.cls = "pos" THEN FloatCls("neg")
    ELSE IF a.cls = "neg" THEN FloatCls("pos")
    ELSE a

\* abs(a) on floats.
FAbs(a) ==
    IF a.cls = "int" THEN Float(IntAbs(a.n))
    ELSE IF a.cls = "any" THEN a
    ELSE FloatCls("pos")

\* a + b on floats.
FAdd(a, b) ==
    IF a.cls = "int" /\ b.cls = "int" THEN Float(a.n + b.n)
    ELSE IF FIsZero(a) THEN b
    ELSE IF FIsZero(b) THEN a
    ELSE IF FSign(a) # 0 /\ FSign(a) = FSign(b) THEN FOfSign(FSign(a))
    ELSE FloatCls("any")

\* a - b on floats.
FSub(a, b) == FAdd(a, FNeg(b))

\* a * b on floats.
FMul(a, b) ==
    IF a.cls = "int" /\ b.cls = "int" THEN Float(a.n * b.n)
    ELSE IF FIsZero(a) \/ FIsZero(b) THEN Float(0)
    ELSE IF a.cls = "any" \/ b.cls = "any" THEN FloatCls("any")
    ELSE FOfSign(FSign(a) * FSign(b))

\* a / b on floats; fz: a divisor of which nothing is known is 0.0.
FDiv(a, b, fz) ==
    IF FIsZero(b) \/ (FMaybeZero(b) /\ fz) THEN Raise("ZeroDivisionError")
    ELSE IF FIsZero(a) THEN Float(0)
    ELSE IF a.cls = "int" /\ b.cls = "int" /\ a.n % IntAbs(b.n) = 0
         THEN Float((IF b.n < 0 THEN -a.n ELSE a.n) \div IntAbs(b.n))
    ELSE IF a.cls = "any" THEN FloatCls("any")
    ELSE FOfSign(FSign(a) * FSign(b))

\* a ** n on floats for an integer n >= 0.
FPowNat(a, n) ==
    IF a.cls = "int" THEN Float(IntPow(a.n, n))
    ELSE IF n = 0 THEN Float(1)
    ELSE IF a.cls = "any" THEN a
    ELSE IF n % 2 = 0 THEN FloatCls("pos")
    ELSE a

\* a ** e on floats; e is the exponent's float (an int, or "pos"/"neg" for a
\* proper fraction); fz as in FDiv.
FPow(a, e, fz) ==
    IF e.cls = "int" /\ e.n >= 0 THEN FPowNat(a, e.n)
    ELSE IF e.cls = "int" THEN
        IF FIsZero(a) \/ (FMaybeZero(a) /\ fz) THEN Raise("ZeroDivisionError")
        ELSE FDiv(Float(1), FPowNat(a, -e.n), FALSE)
    ELSE IF FIsZero(a) \/ (FMaybeZero(a) /\ fz) THEN
        (IF FSign(e) > 0 THEN Float(0) ELSE Raise("ZeroDivisionError"))
    ELSE IF FMaybeZero(a) THEN FloatCls("any")
    ELSE IF FSign(a) > 0 THEN FloatCls("pos")
    ELSE FloatCls("nz")

\* n / d on ints (true division).
IntTrueDiv(n, d) == FDiv(Float(n), Float(d), FALSE)

(***************************************************************************)
(* Value and its display name.                                             *)
(***************************************************************************)
\* Value.__init__: a Value without a var must have an integer initial.
Value(var, initial, float_initial) ==
    IF var = None /\ (initial = None \/ isinstance_Value(initial))
    THEN Raise("Value without a var must have an integer initial")
    ELSE [tag |-> "Value", var |-> var, initial |-> initial,
          float_initial |-> float_initial]

\* chr(ord("a") + base)
chr_a(base) == SubSeq("abcdefghijklmnopqrstuvwxyz", base + 1, base + 1)

\* A __str__ that drops the suffix of the name.
__str__no_suffix(self) ==
    IF self.var = None THEN ToString(self.initial.n)
    ELSE chr_a(self.var.n % 26)

\* Value.__str__
__str__(self) ==
    IF self.var = None THEN ToString(self.initial.n)
    ELSE LET base == self.var.n % 26
             suffix == self.var.n \div 26
         IN  IF suffix = 0 THEN chr_a(base)
             ELSE chr_a(base) \o ToString(suffix)

\* str(x), as an f-string formats an int, a Value or None.
str(x) ==
    IF x = None THEN "None"
    ELSE IF isinstance_int(x) THEN ToString(x.n)
    ELSE __str__(x)

\* A maybe_int that never unwraps a literal.
maybe_int_never(self) == self

\* Value.maybe_int
maybe_int(self) ==
    IF self.var # None THEN self
    ELSE IF self.initial = None
    THEN Raise("Value without an initial is not an integer")
    ELSE self.initial

\* Value.initial_as_int
initial_as_int(self) ==
    IF ~isinstance_int(self.initial)
    THEN Raise("Integer initial value not found in " \o __str__(self))
    ELSE self.initial.n

\* Value.float_initial_as_float
float_initial_as_float(self) ==
    IF self.float_initial = None
    THEN Raise("Float initial value not found in " \o __str__(self))
    ELSE self.float_initial

\* maybe_float_initial(f): f is the outcome of calling the lambda.
maybe_float_initial(f) == IF compute_float_initial THEN f ELSE None

\* i(x)
i(x) ==
    IF isinstance_int(x)
    THEN Value(None, x, maybe_float_initial(float(x)))
    ELSE x

(***************************************************************************)
(* The allocator and the stores are threaded through the operations as a   *)
(* record st = [current_var, equations]; an operation's outcome is the     *)
(* value it returns (or the exception it raises) and the stores it leaves. *)
(***************************************************************************)
Stores == [current_var |-> current_var, equations |-> equations]

Return(val, st) ==
    [val |-> val, exc |-> "none",
     current_var |-> st.current_var, equations |-> st.equations]

Throw(exc, st) ==
    [val |-> None, exc |-> exc,
     current_var |-> st.current_var, equations |-> st.equations]

StoresOf(r) == [current_var |-> r.current_var, equations |-> r.equations]

Raised(r) == r.exc # "none"

\* next_var(): the identifier handed out.
next_var(st) == st.current_var

\* A next_var that leaves the counter where it is.
next_var_st_stuck(st) == st

\* next_var(): the stores it leaves.
next_var_st(st) == [st EXCEPT !.current_var = st.current_var + 1]

\* An append that drops the text.
append_nothing(st, text) == st

\* equations.append(text)
append(st, text) == [st EXCEPT !.equations = Append(st.equations, text)]

\* new_var(x)
new_var(x, st) ==
    Return(Value(int(next_var(st)), x, maybe_float_initial(float(x))),
           next_var_st(st))

\* RationalValue.__init__, after next_var() returned v and n / d gave f:
\* a raised n / d leaves the identifier taken and no equation.
RationalValue__init__(n, d, v, f, st) ==
    IF IsRaise(f) THEN Throw(f.exc, st)
    ELSE Return([tag |-> "RationalValue", var |-> int(v), initial |-> None,
                 float_initial |-> f, n |-> n, d |-> d],
                append(st, ToString(d) \o "*" \o __str__(Value(int(v), None, f))
                           \o " - " \o ToString(n)))

\* RationalValue(n, d): the identifier is taken first, n / d is evaluated
\* next, the equation is appended last.
RationalValue(n, d, st) ==
    RationalValue__init__(n, d, next_var(st), IntTrueDiv(n, d),
                          next_var_st(st))

\* q(n, d)
q(n, d, st) == RationalValue(n, d, st)

(***************************************************************************)
(* Unary operations.  The lambdas (eq, v, vf) an operator passes are       *)
(* named by a descriptor op = [name, power, fz]: name selects the lambdas, *)
(* power is the exponent they capture (None when there is none), fz is the *)
(* outcome of a float division by a float of which nothing is known.       *)
(***************************************************************************)
UnaryOp(name, power, fz) == [name |-> name, power |-> power, fz |-> fz]

\* The eq lambdas of __neg__, abs and the four branches of __pow__.
eq1(op, a, b) ==
    IF op.name = "neg" THEN str(a) \o " + " \o str(b)
    ELSE IF op.name = "abs" THEN str(a) \o "^2 - " \o str(b) \o "^2"
    ELSE IF op.name = "pow_rational_pos" THEN
        (IF a.var # None
         THEN str(a) \o "^" \o ToString(op.power.n)
         ELSE ToString(IntPow(initial_as_int(a), op.power.n)))
        \o " - " \o str(b) \o "^" \o ToString(op.power.d)
    ELSE IF op.name = "pow_rational_nonpos" THEN
        "1 - "
        \o (IF a.var # None
            THEN str(a) \o "^" \o ToString(-op.power.n)
            ELSE ToString(IntPow(initial_as_int(a), -op.power.n)))
        \o "*" \o str(b) \o "^" \o ToString(op.power.d)
    ELSE IF op.name = "pow_int_pos" THEN
        str(a) \o "^" \o str(op.power) \o " - " \o str(b)
    ELSE \* "pow_int_nonpos"; -power folds to the literal of the negated int
        "1 - "
        \o (IF a.var # None
            THEN str(a) \o "^" \o ToString(-initial_as_int(op.power))
            ELSE ToString(IntPow(initial_as_int(a), -initial_as_int(op.power))))
        \o "*" \o str(b)

\* The v lambdas (exact sample transforms) of __neg__, abs and __pow__.
v1(op, a) ==
    IF op.name = "neg" THEN -a
    ELSE IF op.name = "abs" THEN IntAbs(a)
    ELSE IntPow(a, initial_as_int(op.power))

\* The vf lambdas (float sample transforms); a is the outcome of
\* float_initial_as_float().
vf1(op, a) ==
    IF IsRaise(a) THEN a
    ELSE IF op.name = "neg" THEN FNeg(a)
    ELSE IF op.name = "abs" THEN FAbs(a)
    ELSE LET e == float_initial_as_float(op.power)
         IN  IF IsRaise(e) THEN e ELSE FPow(a, e, op.fz)

\* result = Value(next_var(), initial, float_initial);
\* equations.append(eq(self, result)); return result
unary_result(self, op, initial, float_initial, st) ==
    Return(Value(int(next_var(st)), initial, float_initial),
           append(next_var_st(st),
                  eq1(op, self,
                      Value(int(next_var(st)), initial, float_initial))))

\* A result that takes the operand itself, sample and all, as its sample.
unary_sample_result_chained(self, op, float_initial, sub) ==
    IF Raised(sub) THEN sub
    ELSE unary_result(self, op, self, float_initial, StoresOf(sub))

\* initial = <the operation on the sample>.maybe_int(), then the result.
unary_sample_result(self, op, float_initial, sub) ==
    IF Raised(sub) THEN sub
    ELSE unary_result(self, op, maybe_int(sub.val), float_initial,
                      StoresOf(sub))

RECURSIVE integer_valued_operation(_, _, _)
\* Value.integer_valued_operation, after float_initial is computed.
integer_valued_operation_body(self, op, float_initial, st) ==
    IF IsRaise(float_initial) THEN Throw(float_initial.exc, st)
    ELSE IF self.var = None THEN
        Return(Value(None, int(v1(op, initial_as_int(self))), float_initial),
               st)
    ELSE IF self.initial = None THEN
        unary_result(self, op, None, float_initial, st)
    ELSE unary_sample_result(
             self, op, float_initial,
             integer_valued_operation(i(self.initial), op, st))

\* Value.integer_valued_operation
integer_valued_operation(self, op, st) ==
    integer_valued_operation_body(
        self, op, maybe_float_initial(vf1(op, float_initial_as_float(self))),
        st)

\* The operation without its descent into the sample.
non_integer_valued_operation_no_sample(self, op, float_initial, st) ==
    IF IsRaise(float_initial) THEN Throw(float_initial.exc, st)
    ELSE unary_result(self, op, None, float_initial, st)

RECURSIVE non_integer_valued_operation(_, _, _)
\* Value.non_integer_valued_operation, after float_initial is computed.
non_integer_valued_operation_body(self, op, float_initial, st) ==
    IF IsRaise(float_initial) THEN Throw(float_initial.exc, st)
    ELSE IF self.var = None \/ self.initial = None THEN
        unary_result(self, op, None, float_initial, st)
    ELSE unary_sample_result(
             self, op, float_initial,
             non_integer_valued_operation(i(self.initial), op, st))

\* Value.non_integer_valued_operation
non_integer_valued_operation(self, op, st) ==
    non_integer_valued_operation_body(
        self, op, maybe_float_initial(vf1(op, float_initial_as_float(self))),
        st)

\* Value.__neg__
__neg__(self, st) ==
    integer_valued_operation(self, UnaryOp("neg", None, FALSE), st)

\* Value.abs
abs(self, st) ==
    integer_valued_operation(self, UnaryOp("abs", None, FALSE), st)

\* A __pow__ that takes only positive literals as integer powers.
__pow__positive_only(self, power, fz, st) ==
    IF isinstance_RationalValue(power) THEN
        (IF power.n > 0
         THEN non_integer_valued_operation(
                  self, UnaryOp("pow_rational_pos", power, fz), st)
         ELSE non_integer_valued_operation(
                  self, UnaryOp("pow_rational_nonpos", power, fz), st))
    ELSE IF power.var # None THEN
        Throw("Only constant integer powers are supported", st)
    ELSE IF initial_as_int(power) > 0
         THEN integer_valued_operation(
                  self, UnaryOp("pow_int_pos", power, fz), st)
         ELSE Throw("Only constant integer powers are supported", st)

\* Value.__pow__
__pow__(self, power, fz, st) ==
    IF isinstance_RationalValue(power) THEN
        (IF power.n > 0
         THEN non_integer_valued_operation(
                  self, UnaryOp("pow_rational_pos", power, fz), st)
         ELSE non_integer_valued_operation(
                  self, UnaryOp("pow_rational_nonpos", power, fz), st))
    ELSE IF power.var # None THEN
        Throw("Only constant integer powers are supported", st)
    ELSE IF initial_as_int(power) > 0
         THEN integer_valued_operation(
                  self, UnaryOp("pow_int_pos", power, fz), st)
         ELSE non_integer_valued_operation(
                  self, UnaryOp("pow_int_nonpos", power, fz), st)

\* x ** half, half being the outcome of q(1, 2).
sqrt_pow(x, half, fz) ==
    IF Raised(half) THEN half
    ELSE __pow__(x, half.val, fz, StoresOf(half))

\* sqrt(x), the definition in force (the later one): x ** q(1, 2)
sqrt(x, fz, st) == sqrt_pow(x, q(1, 2, st), fz)

(***************************************************************************)
(* Binary operations: op = [name, fz] names the lambdas of __add__,        *)
(* __sub__, __mul__ and __truediv__.                                       *)
(***************************************************************************)
BinaryOp(name, fz) == [name |-> name, fz |-> fz]

\* The eq lambdas: op1, op2, result.
eq2(op, a, b, c) ==
    IF op.name = "add" THEN str(a) \o " + " \o str(b) \o " - " \o str(c)
    ELSE IF op.name = "sub" THEN str(a) \o " - " \o str(b) \o " - " \o str(c)
    ELSE IF op.name = "mul" THEN str(a) \o "*" \o str(b) \o " - " \o str(c)
    ELSE str(a) \o " - " \o str(b) \o "*" \o str(c)

\* A v lambda that adds whatever the operator is.
v2_always_add(op, a, b) == a + b

\* The v lambdas of __add__, __sub__ and __mul__.
v2(op, a, b) ==
    IF op.name = "add" THEN a + b
    ELSE IF op.name = "sub" THEN a - b
    ELSE a * b

\* The vf lambdas; a and b are the outcomes of float_initial_as_float().
vf2(op, a, b) ==
    IF IsRaise(a) THEN a
    ELSE IF IsRaise(b) THEN b
    ELSE IF op.name = "add" THEN FAdd(a, b)
    ELSE IF op.name = "sub" THEN FSub(a, b)
    ELSE IF op.name = "mul" THEN FMul(a, b)
    ELSE FDiv(a, b, op.fz)

\* An elevation that never takes place.
elevate_never(arg1, arg2) == arg1

\* "Unknown constant (arg1) is elevated to a full-fledged Value"
elevate(arg1, arg2) ==
    IF arg1.initial = None /\ arg2.initial # None /\ arg2.var # None
    THEN Value(arg1.var, arg1, arg1.float_initial)
    ELSE arg1

\* A result whose equation is appended twice.
binary_result_twice(a, b, op, initial, float_initial, st) ==
    Return(Value(int(next_var(st)), initial, float_initial),
           append(append(next_var_st(st),
                         eq2(op, a, b,
                             Value(int(next_var(st)), initial, float_initial))),
                  eq2(op, a, b,
                      Value(int(next_var(st)), initial, float_initial))))

\* result = Value(next_var(), initial, float_initial);
\* equations.append(eq(a, b, result)); return result
binary_result(a, b, op, initial, float_initial, st) ==
    Return(Value(int(next_var(st)), initial, float_initial),
           append(next_var_st(st),
                  eq2(op, a, b,
                      Value(int(next_var(st)), initial, float_initial))))

\* initial = <the operation on the samples>.maybe_int(), then the result.
binary_sample_result(a, b, op, float_initial, sub) ==
    IF Raised(sub) THEN sub
    ELSE binary_result(a, b, op, maybe_int(sub.val), float_initial,
                       StoresOf(sub))

RECURSIVE integer_valued_binary_operation(_, _, _, _)
\* Value.integer_valued_binary_operation, after both elevations; the
\* equation is written over self and other.
integer_valued_binary_operation_args(self, other, arg1, arg2, op, float_initial, st) ==
    IF arg1.initial = None \/ arg2.initial = None
    THEN binary_result(self, other, op, None, float_initial, st)
    ELSE binary_sample_result(
             self, other, op, float_initial,
             integer_valued_binary_operation(
                 i(arg1.initial), i(arg2.initial), op, st))

\* Value.integer_valued_binary_operation, after float_initial is computed.
integer_valued_binary_operation_body(self, other, op, float_initial, st) ==
    IF IsRaise(float_initial) THEN Throw(float_initial.exc, st)
    ELSE IF self.var = None /\ other.var = None THEN
        Return(Value(None,
                     int(v2(op, initial_as_int(self), initial_as_int(other))),
                     float_initial), st)
    ELSE integer_valued_binary_operation_args(
             self, other, elevate(self, other),
             elevate(other, elevate(self, other)), op, float_initial, st)

\* Value.integer_valued_binary_operation
integer_valued_binary_operation(self, other, op, st) ==
    integer_valued_binary_operation_body(
        self, other, op,
        maybe_float_initial(vf2(op, float_initial_as_float(self),
                                float_initial_as_float(other))),
        st)

\* The operation without its descent into the samples.
non_integer_valued_binary_operation_no_sample(arg1, arg2, op, float_initial, st) ==
    binary_result(arg1, arg2, op, None, float_initial, st)

RECURSIVE non_integer_valued_binary_operation(_, _, _, _)
\* Value.non_integer_valued_binary_operation, after both elevations; the
\* equation is written over arg1 and arg2.
non_integer_valued_binary_operation_args(arg1, arg2, op, float_initial, st) ==
    IF arg1.initial = None \/ arg2.initial = None
    THEN binary_result(arg1, arg2, op, None, float_initial, st)
    ELSE IF arg1.var = None /\ arg2.var = None
    THEN binary_result(arg1, arg2, op, None, float_initial, st)
    ELSE binary_sample_result(
             arg1, arg2, op, float_initial,
             non_integer_valued_binary_operation(
                 i(arg1.initial), i(arg2.initial), op, st))

\* Value.non_integer_valued_binary_operation, after float_initial is computed.
non_integer_valued_binary_operation_body(self, other, op, float_initial, st) ==
    IF IsRaise(float_initial) THEN Throw(float_initial.exc, st)
    ELSE non_integer_valued_binary_operation_args(
             elevate(self, other), elevate(other, elevate(self, other)), op,
             float_initial, st)

\* Value.non_integer_valued_binary_operation
non_integer_valued_binary_operation(self, other, op, st) ==
    non_integer_valued_binary_operation_body(
        self, other, op,
        maybe_float_initial(vf2(op, float_initial_as_float(self),
                                float_initial_as_float(other))),
        st)

\* Value.__add__
__add__(self, other, st) ==
    integer_valued_binary_operation(self, other, BinaryOp("add", FALSE), st)

\* Value.__sub__
__sub__(self, other, st) ==
    integer_valued_binary_operation(self, other, BinaryOp("sub", FALSE), st)

\* Value.__mul__ on two Values
__mul__(self, other, st) ==
    integer_valued_binary_operation(self, other, BinaryOp("mul", FALSE), st)

\* Value.__truediv__
__truediv__(self, other, fz, st) ==
    non_integer_valued_binary_operation(self, other, BinaryOp("div", fz), st)

(***************************************************************************)
(* Assertion primitives on Values.                                         *)
(***************************************************************************)
\* An is_constant that appends the unknown alone.
is_constant_unbound(x, st) ==
    IF x.var = None THEN Return(None, st)
    ELSE Return(None, append(st, str(x)))

\* An is_constant that binds an unknown to whatever its sample reads as.
is_constant_unguarded(x, st) ==
    IF x.var = None THEN Return(None, st)
    ELSE Return(None, append(st, str(x) \o " - " \o str(x.initial)))

\* is_constant(x)
is_constant(x, st) ==
    IF x.var = None THEN Return(None, st)
    ELSE IF x.initial = None THEN
        Throw("is_constant() call for an \"unknown value\" is not allowed", st)
    ELSE Return(None, append(st, str(x) \o " - " \o str(x.initial)))

\* An is_zero that takes a constant for an unknown without testing it.
is_zero_untested(x, st) ==
    IF x.var = None THEN Return(None, st)
    ELSE Return(None, append(st, str(x)))

\* is_zero(x)
is_zero(x, st) ==
    IF isinstance_int(x.initial) /\ initial_as_int(x) # 0 THEN
        Throw("is_zero() call for a non-zero constant " \o str(x)
                  \o " is not allowed", st)
    ELSE IF x.var = None THEN Return(None, st)
    ELSE LET st1 == append(st, str(x))
         IN  IF ~isinstance_int(x.initial)
             THEN Return(None, append(st1, str(x.initial)))
             ELSE Return(None, st1)

(***************************************************************************)
(* The geometric layer: points, vectors and lines over Values.             *)
(***************************************************************************)
Point(x, y) == [tag |-> "Point", x |-> x, y |-> y]

Vector(x, y) == [tag |-> "Vector", x |-> x, y |-> y]

Line(o, n) == [tag |-> "Line", o |-> o, n |-> n]

isinstance_Point(a) == a.tag = "Point"

isinstance_Line(a) == a.tag = "Line"

\* FixedPoint(x, y)
FixedPoint(x, y) == Point(i(int(x)), i(int(y)))

\* FreePoint(x, y), after new_var(x) and new_var(y).
FreePoint__init__(rx, ry) == Return(Point(rx.val, ry.val), StoresOf(ry))

\* FreePoint(x, y): new_var(x), then new_var(y).
FreePoint(x, y, st) ==
    FreePoint__init__(new_var(int(x), st),
                      new_var(int(y), StoresOf(new_var(int(x), st))))

\* Vector(x, y) of two outcomes, y computed after x.
Vector_of(rx, ry) ==
    IF Raised(ry) THEN ry ELSE Return(Vector(rx.val, ry.val), StoresOf(ry))

\* Point.__sub__, after self.x - other.x.
Point__sub__y(self, other, rx) ==
    IF Raised(rx) THEN rx
    ELSE Vector_of(rx, __sub__(self.y, other.y, StoresOf(rx)))

\* Point.__sub__: the Vector of the two differences, x first.
Point__sub__(self, other, st) ==
    Point__sub__y(self, other, __sub__(self.x, other.x, st))

\* Vector.rotated90, after -self.x.
rotated90_of(self, rn) ==
    IF Raised(rn) THEN rn ELSE Return(Vector(self.y, rn.val), StoresOf(rn))

\* Vector.rotated90
rotated90(self, st) == rotated90_of(self, __neg__(self.x, st))

\* Vector.__mul__, after both products: their sum.
Vector__mul__sum(rx, ry) ==
    IF Raised(ry) THEN ry ELSE __add__(rx.val, ry.val, StoresOf(ry))

\* Vector.__mul__, after self.x * other.x.
Vector__mul__y(self, other, rx) ==
    IF Raised(rx) THEN rx
    ELSE Vector__mul__sum(rx, __mul__(self.y, other.y, StoresOf(rx)))

\* Vector.__mul__ on two Vectors: the dot product.
Vector__mul__(self, other, st) ==
    Vector__mul__y(self, other, __mul__(self.x, other.x, st))

\* Vector.length_sqr
length_sqr(self, st) == Vector__mul__(self, self, st)

\* sqrt of an outcome.
sqrt_of(r, fz) == IF Raised(r) THEN r ELSE sqrt(r.val, fz, StoresOf(r))

\* Vector.length
length(self, fz, st) == sqrt_of(length_sqr(self, st), fz)

\* LineAB(a, b), after (b - a).rotated90().
LineAB__init__(a, rn) ==
    IF Raised(rn) THEN rn ELSE Return(Line(a, rn.val), StoresOf(rn))

\* LineAB(a, b), after b - a.
LineAB_rotated(a, rv) ==
    IF Raised(rv) THEN rv
    ELSE LineAB__init__(a, rotated90(rv.val, StoresOf(rv)))

\* LineAB(a, b)
LineAB(a, b, st) == LineAB_rotated(a, Point__sub__(b, a, st))

\* (p - self.o) * self.n, after p - self.o.
offset_dot_normal_of(self, rv) ==
    IF Raised(rv) THEN rv ELSE Vector__mul__(rv.val, self.n, StoresOf(rv))

\* (p - self.o) * self.n
offset_dot_normal(self, p, st) ==
    offset_dot_normal_of(self, Point__sub__(p, self.o, st))

\* Line.contains, after v = (p - self.o) * self.n.
contains_of(rv) ==
    IF Raised(rv) THEN rv
    ELSE IF rv.val.initial # None
    THEN Return(None, append(append(StoresOf(rv), str(rv.val)),
                             str(rv.val.initial)))
    ELSE Return(None, append(StoresOf(rv), str(rv.val)))

\* Line.contains
contains(self, p, st) == contains_of(offset_dot_normal(self, p, st))

\* The quotient of two outcomes, the divisor computed last.
quotient_of(rp, rl, fz) ==
    IF Raised(rl) THEN rl ELSE __truediv__(rp.val, rl.val, fz, StoresOf(rl))

\* Line.distance_to_point_sqr, after ((p - self.o) * self.n) ** i(2).
distance_to_point_sqr_quotient(self, rp, fz) ==
    IF Raised(rp) THEN rp
    ELSE quotient_of(rp, length_sqr(self.n, StoresOf(rp)), fz)

\* An outcome raised to i(2).
squared(rv, fz) ==
    IF Raised(rv) THEN rv ELSE __pow__(rv.val, i(int(2)), fz, StoresOf(rv))

\* Line.distance_to_point_sqr
distance_to_point_sqr(self, p, fz, st) ==
    distance_to_point_sqr_quotient(
        self, squared(offset_dot_normal(self, p, st), fz), fz)

\* Line.distance_to_point, after (p - self.o) * self.n.
distance_to_point_quotient(self, rv, fz) ==
    IF Raised(rv) THEN rv
    ELSE quotient_of(rv, length(self.n, fz, StoresOf(rv)), fz)

\* Line.distance_to_point
distance_to_point(self, p, fz, st) ==
    distance_to_point_quotient(self, offset_dot_normal(self, p, st), fz)

\* The sum of two outcomes, the second computed last.
sum_of(px, py) ==
    IF Raised(py) THEN py ELSE __add__(px.val, py.val, StoresOf(py))

\* (a.x - b.x) ** i(2) + (a.y - b.y) ** i(2), after the first square.
point_distance_sqr_y(a, b, px, fz) ==
    IF Raised(px) THEN px
    ELSE sum_of(px, squared(__sub__(a.y, b.y, StoresOf(px)), fz))

\* (a.x - b.x) ** i(2) + (a.y - b.y) ** i(2)
point_distance_sqr(a, b, fz, st) ==
    point_distance_sqr_y(a, b, squared(__sub__(a.x, b.x, st), fz), fz)

\* d_sqr(a, b)
d_sqr(a, b, fz, st) ==
    IF isinstance_Line(a) /\ isinstance_Point(b)
    THEN distance_to_point_sqr(a, b, fz, st)
    ELSE IF isinstance_Point(a) /\ isinstance_Line(b)
    THEN distance_to_point_sqr(b, a, fz, st)
    ELSE IF isinstance_Point(a) /\ isinstance_Point(b)
    THEN point_distance_sqr(a, b, fz, st)
    ELSE Throw("d() cannot be called with two lines", st)

\* d(a, b)
d(a, b, fz, st) ==
    IF isinstance_Line(a) /\ isinstance_Point(b)
    THEN distance_to_point(a, b, fz, st)
    ELSE IF isinstance_Point(a) /\ isinstance_Line(b)
    THEN distance_to_point(b, a, fz, st)
    ELSE IF isinstance_Point(a) /\ isinstance_Point(b)
    THEN sqrt_of(d_sqr(a, b, fz, st), fz)
    ELSE Throw("d() cannot be called with two lines", st)

\* plot(name, point)
plot(name, point) ==
    Append(plots, name \o " " \o str(point.x) \o " " \o str(point.y))

(***************************************************************************)
(* The session: the client calls the engine's operations on literals and   *)
(* on the unknowns earlier calls returned.  ret records the last call: its *)
(* name, its arguments, what it returned or raised, and the allocator and  *)
(* equation store as they were when it was made.                           *)
(***************************************************************************)
NoCall ==
    [op |-> "none", args |-> <<>>, val |-> None, exc |-> "none",
     before |-> [current_var |-> 0, equations |-> <<>>]]

Init ==
    /\ current_var = 0
    /\ equations = <<>>
    /\ plots = <<>>
    /\ compute_float_initial \in BOOLEAN
    /\ values = {}
    /\ points = {}
    /\ lines = {}
    /\ ret = NoCall

\* The literals the client builds with i().
Literals == {i(int(n)) : n \in LitInts}

\* What the client can pass as a Value argument.
Operands == values \cup Literals

\* What the client can pass as an exponent.
Exponents == values \cup {i(int(n)) : n \in PowInts}

\* The fixed points the client builds with FixedPoint().
FixedPoints == {FixedPoint(x, y) : x \in FixedXs, y \in FixedYs}

\* What the client can pass as a Point argument.
PointOperands == points \cup FixedPoints

\* The outcomes of a float division by a float of which nothing is known.
FzChoices == IF compute_float_initial THEN BOOLEAN ELSE {FALSE}

\* The last call was an assertion or a plot, which end the construction.
Final == ret.op \in {"is_constant", "is_zero", "contains", "plot"}

\* The last call returned and left the allocator and the equation store as
\* they were and handed the client nothing to keep (a fold of literals).
Unchanged ==
    ret.op # "none" /\ ret.before = Stores /\ ~isinstance_Line(ret.val)

\* The client goes on with the run: after an exception the run is aborted,
\* an assertion ends it, and what can follow a call that changed nothing
\* already follows the state it was made in.
Continues == ret.exc = "none" /\ ~Final /\ ~Unchanged

\* The client has room for one more unknown.
Room == Continues /\ Cardinality(values) < MaxValues

\* The call returns: the stores are as the operation left them, and the
\* client keeps the unknown, free point or line it was handed.
Call(name, args, r) ==
    /\ current_var' = r.current_var
    /\ equations' = r.equations
    /\ values' = IF isinstance_Value(r.val) /\ r.val.var # None
                 THEN values \cup {r.val}
                 ELSE values
    /\ points' = IF isinstance_Point(r.val) THEN points \cup {r.val}
                 ELSE points
    /\ lines' = IF isinstance_Line(r.val) THEN lines \cup {r.val} ELSE lines
    /\ ret' = [op |-> name, args |-> args, val |-> r.val, exc |-> r.exc,
               before |-> Stores]
    /\ UNCHANGED <<plots, compute_float_initial>>

NewVar ==
    /\ Room
    /\ \E x \in SampleInts :
          Call("new_var", <<int(x)>>, new_var(int(x), Stores))

Rational ==
    /\ Room
    /\ \E nd \in RationalArgs :
          Call("q", <<int(nd[1]), int(nd[2])>>, q(nd[1], nd[2], Stores))

Neg ==
    /\ Room
    /\ \E x \in Operands : Call("neg", <<x>>, __neg__(x, Stores))

Abs ==
    /\ Room
    /\ \E x \in Operands : Call("abs", <<x>>, abs(x, Stores))

Sqrt ==
    /\ Room
    /\ \E x \in Operands, fz \in FzChoices :
          Call("sqrt", <<x>>, sqrt(x, fz, Stores))

Pow ==
    /\ Room
    /\ \E x \in Operands, power \in Exponents, fz \in FzChoices :
          Call("pow", <<x, power>>, __pow__(x, power, fz, Stores))

Add ==
    /\ Room
    /\ \E x \in Operands, y \in Operands :
          Call("add", <<x, y>>, __add__(x, y, Stores))

Sub ==
    /\ Room
    /\ \E x \in Operands, y \in Operands :
          Call("sub", <<x, y>>, __sub__(x, y, Stores))

Mul ==
    /\ Room
    /\ \E x \in Operands, y \in Operands :
          Call("mul", <<x, y>>, __mul__(x, y, Stores))

Div ==
    /\ Room
    /\ \E x \in Operands, y \in Operands, fz \in FzChoices :
          Call("div", <<x, y>>, __truediv__(x, y, fz, Stores))

IsConstant ==
    /\ Continues
    /\ \E x \in Operands : Call("is_constant", <<x>>, is_constant(x, Stores))

IsZero ==
    /\ Continues
    /\ \E x \in Operands : Call("is_zero", <<x>>, is_zero(x, Stores))

\* A run boundary, as the scenario runner makes it: the equation store is
\* cleared and the counter is set to 0 (the plot store is left as it is);
\* the client discards the run's entities.
Reset ==
    /\ ret # NoCall
    /\ current_var' = 0
    /\ equations' = <<>>
    /\ values' = {}
    /\ points' = {}
    /\ lines' = {}
    /\ ret' = NoCall
    /\ UNCHANGED <<plots, compute_float_initial>>

Next ==
    \/ NewVar
    \/ Rational
    \/ Neg
    \/ Abs
    \/ Sqrt
    \/ Pow
    \/ Add
    \/ Sub
    \/ Mul
    \/ Div
    \/ IsConstant
    \/ IsZero
    \/ Reset

Spec == Init /\ [][Next]_vars

NewFreePoint ==
    /\ Continues
    /\ Cardinality(points) < MaxPoints
    /\ \E xy \in FreeSamples :
          Call("FreePoint", <<int(xy[1]), int(xy[2])>>,
               FreePoint(xy[1], xy[2], Stores))

NewLineAB ==
    /\ Continues
    /\ Cardinality(lines) < MaxLines
    /\ \E a \in PointOperands, b \in PointOperands :
          Call("LineAB", <<a, b>>, LineAB(a, b, Stores))

Distance ==
    /\ Continues
    /\ Cardinality(values) < MaxDistances
    /\ \E a \in PointOperands \cup lines, b \in PointOperands \cup lines,
          fz \in FzChoices :
          Call("d", <<a, b>>, d(a, b, fz, Stores))

DistanceSqr ==
    /\ Continues
    /\ Cardinality(values) < MaxDistances
    /\ \E a \in PointOperands \cup lines, b \in PointOperands \cup lines,
          fz \in FzChoices :
          Call("d_sqr", <<a, b>>, d_sqr(a, b, fz, Stores))

Contains ==
    /\ Continues
    /\ \E l \in lines, p \in PointOperands :
          Call("contains", <<l, p>>, contains(l, p, Stores))

Plot ==
    /\ Continues
    /\ Len(plots) < MaxPlots
    /\ \E name \in PlotNames, p \in PointOperands :
          /\ plots' = plot(name, p)
          /\ ret' = [op |-> "plot", args |-> <<p>>, val |-> None,
                     exc |-> "none", before |-> Stores]
          /\ UNCHANGED <<current_var, equations, compute_float_initial,
                         values, points, lines>>

\* The construction session: free points, lines through two points,
\* distances, and the assertions on them.
NextGeo ==
    \/ NewFreePoint
    \/ NewLineAB
    \/ Distance
    \/ DistanceSqr
    \/ Contains
    \/ IsConstant
    \/ IsZero
    \/ Plot
    \/ Reset

GeoSpec == Init /\ [][NextGeo]_vars

(***************************************************************************)
(* What the last call did to the allocator and the equation store.         *)
(***************************************************************************)
Returned == ret.exc = "none"

\* Identifiers the last call took, and equations it appended.
Allocated == current_var - ret.before.current_var

Appended == Len(equations) - Len(ret.before.equations)

NewVars == ret.before.current_var .. (current_var - 1)

\* The k-th equation the last call appended.
NewEquation(k) == equations[Len(ret.before.equations) + k]

IsLiteral(x) == isinstance_Value(x) /\ x.var = None

IsUnknown(x) == isinstance_Value(x) /\ x.var # None

\* The display name of identifier v.
Name(v) == __str__(Value(int(v), None, None))

IsDigit(c) == c \in {"0", "1", "2", "3", "4", "5", "6", "7", "8", "9"}

IsLetter(c) == c = "N" \/ \E k \in 0..25 : c = chr_a(k)

CharAt(text, k) ==
    IF k < 1 \/ k > Len(text) THEN " " ELSE SubSeq(text, k, k)

\* The equation text mentions the unknown v: its name occurs as a whole
\* token (not inside a longer name such as "a1", nor inside "None").
References(text, v) ==
    \E k \in 1..Len(text) :
        /\ k + Len(Name(v)) - 1 <= Len(text)
        /\ SubSeq(text, k, k + Len(Name(v)) - 1) = Name(v)
        /\ ~IsDigit(CharAt(text, k + Len(Name(v))))
        /\ ~IsLetter(CharAt(text, k - 1))

\* The exact result of add, sub, mul on two ints.
Arithmetic(name, x, y) ==
    IF name = "add" THEN x + y
    ELSE IF name = "sub" THEN x - y
    ELSE x * y

\* The text of the division equation over a, b and the quotient r.
DivisionText(a, b, r) == str(a) \o " - " \o str(b) \o "*" \o str(r)

(***************************************************************************)
(* C1: binary operations on two literals.                                  *)
(***************************************************************************)
\* The last call is a binary operation on two literals.
FoldingCall ==
    /\ ret.op \in {"add", "sub", "mul", "div"}
    /\ IsLiteral(ret.args[1])
    /\ IsLiteral(ret.args[2])

\* C1 as stated: each of add, subtract, multiply and divide on two literals
\* returns a literal equal to the arithmetic result, leaves the counter
\* unchanged and appends no equation.
C1_FoldingLaw_AsStated ==
    FoldingCall =>
        /\ Returned
        /\ IsLiteral(ret.val)
        /\ IF ret.op = "div"
           THEN ret.val.initial.n * ret.args[2].initial.n
                    = ret.args[1].initial.n
           ELSE ret.val.initial
                    = int(Arithmetic(ret.op, ret.args[1].initial.n,
                                     ret.args[2].initial.n))
        /\ Allocated = 0
        /\ Appended = 0

\* C1: add, subtract and multiply on two literals return a literal equal to
\* the arithmetic result, leave the counter unchanged and append no
\* equation.  Divide on two literals does not fold: when it returns it has
\* allocated one unknown r with absent sample and appended the one equation
\* "<x> - <y>*<r>"; it raises ZeroDivisionError, with the counter and the
\* store unchanged, only with the float witness enabled and y = 0.
C1_FoldingLaw ==
    FoldingCall =>
        IF ret.op # "div" THEN
            /\ Returned
            /\ IsLiteral(ret.val)
            /\ ret.val.initial
                   = int(Arithmetic(ret.op, ret.args[1].initial.n,
                                    ret.args[2].initial.n))
            /\ Allocated = 0
            /\ Appended = 0
        ELSE IF Returned THEN
            /\ IsUnknown(ret.val)
            /\ ret.val.var = int(ret.before.current_var)
            /\ ret.val.initial = None
            /\ Allocated = 1
            /\ Appended = 1
            /\ NewEquation(1)
                   = DivisionText(ret.args[1], ret.args[2], ret.val)
        ELSE
            /\ ret.exc = "ZeroDivisionError"
            /\ compute_float_initial
            /\ ret.args[2].initial.n = 0
            /\ Allocated = 0
            /\ Appended = 0

\* A divide on two literals has returned.
C1_Witness == FoldingCall /\ ret.op = "div" /\ Returned

(***************************************************************************)
(* C2: allocations and the equations that accompany them.                  *)
(***************************************************************************)
\* The last call is an engine operation other than an assertion.
EngineCall ==
    ret.op \in {"new_var", "q", "neg", "abs", "sqrt", "pow",
                "add", "sub", "mul", "div"}

\* Exactly one of the equations the last call appended mentions v.
OneNewEquationReferences(v) ==
    Cardinality({k \in 1..Appended : References(NewEquation(k), v)}) = 1

\* C2 as stated: every identifier an engine operation allocates (fresh,
\* rational, unary and binary arithmetic) comes with exactly one newly
\* appended equation that references it.
C2_SingleEquationLaw_AsStated ==
    EngineCall => \A v \in NewVars : OneNewEquationReferences(v)

\* C2: every identifier a rational or an arithmetic operation allocates
\* comes with exactly one newly appended equation that references it,
\* except that a rational with a zero denominator raises after taking its
\* identifier and appends nothing; a fresh unknown (new_var) is allocated
\* with no equation at all.
C2_SingleEquationLaw ==
    EngineCall =>
        IF ret.op = "new_var" THEN
            Returned /\ Allocated = 1 /\ Appended = 0
        ELSE IF ret.op = "q" /\ ~Returned THEN
            /\ ret.args[2] = int(0)
            /\ ret.exc = "ZeroDivisionError"
            /\ Allocated = 1
            /\ Appended = 0
        ELSE
            /\ Appended = Allocated
            /\ \A v \in NewVars : OneNewEquationReferences(v)

\* A power has allocated two unknowns, the result and its sample's.
C2_Witness == ret.op = "pow" /\ Returned /\ Allocated = 2

(***************************************************************************)
(* C3: equations appended by one application of an arithmetic operator.    *)
(***************************************************************************)
ArithmeticCall ==
    ret.op \in {"neg", "pow", "abs", "add", "sub", "mul", "div"}

\* C3 as stated: an application of an arithmetic operator that allocates
\* appends exactly one equation, and no application appends two or more.
C3_OneEquationPerOperator_AsStated ==
    ArithmeticCall =>
        /\ Appended <= 1
        /\ (Allocated > 0 => Appended = 1)

\* C3: an application of an arithmetic operator appends exactly one
\* equation per unknown it allocates: one for the result and, when the
\* sample of the result is itself a fresh unknown, one more for that
\* sample; so an application appends none, one or two equations.
C3_OneEquationPerOperator ==
    ArithmeticCall =>
        /\ Appended = Allocated
        /\ Allocated <= 2
        /\ (Returned /\ IsUnknown(ret.val) => Allocated >= 1)
        /\ (Allocated = 2 => IsUnknown(ret.val.initial))

\* An addition has appended two equations.
C3_Witness == ret.op = "add" /\ Returned /\ Appended = 2

(***************************************************************************)
(* C4: division.                                                           *)
(***************************************************************************)
\* The quotient the last call (a division a / b) returned is a fresh
\* unknown r, the last equation is "<a> - <b>*<r>"; r has no sample when a
\* and b are literals; when one of them is an unknown and both have a
\* sample, r's sample is a fresh unknown s with no sample, allocated right
\* before r, and "<sample of a> - <sample of b>*<s>" is in the store.
DivisionResult ==
    /\ IsUnknown(ret.val)
    /\ ret.val.var = int(current_var - 1)
    /\ ret.val.var.n >= ret.before.current_var
    /\ equations[Len(equations)]
           = DivisionText(ret.args[1], ret.args[2], ret.val)
    /\ (IsLiteral(ret.args[1]) /\ IsLiteral(ret.args[2])
            => ret.val.initial = None)
    /\ (/\ IsUnknown(ret.args[1]) \/ IsUnknown(ret.args[2])
        /\ ret.args[1].initial # None
        /\ ret.args[2].initial # None
        => /\ IsUnknown(ret.val.initial)
           /\ ret.val.initial.initial = None
           /\ ret.val.var.n = ret.val.initial.var.n + 1
           /\ ret.val.initial.var.n >= ret.before.current_var
           /\ \E k \in 1..Len(equations) :
                 equations[k] = DivisionText(ret.args[1].initial,
                                             ret.args[2].initial,
                                             ret.val.initial))

\* C4 as stated: a division always allocates and appends as DivisionResult
\* says, for every combination of operands.
C4_Division_AsStated == ret.op = "div" => Returned /\ DivisionResult

\* C4: a division that returns has allocated and appended as
\* DivisionResult says; a division raises instead, ZeroDivisionError with
\* the counter and the store unchanged, only with the float witness
\* enabled (when the divisor's float sample is zero).
C4_Division ==
    ret.op = "div" =>
        IF Returned THEN DivisionResult
        ELSE /\ ret.exc = "ZeroDivisionError"
             /\ compute_float_initial
             /\ Allocated = 0
             /\ Appended = 0

\* A division of an unknown with a sample by an operand with a sample has
\* returned.
C4_Witness ==
    /\ ret.op = "div"
    /\ Returned
    /\ IsUnknown(ret.args[1])
    /\ ret.args[1].initial # None
    /\ ret.args[2].initial # None

(***************************************************************************)
(* C5: samples of add, subtract and multiply.                              *)
(***************************************************************************)
\* C5: when both operands of add, subtract or multiply have an integer
\* sample, literal or unknown alike, the operation returns and the
\* result's sample is the integer the operation gives on the two samples.
C5_SampleConsistency ==
    /\ ret.op \in {"add", "sub", "mul"}
    /\ isinstance_int(ret.args[1].initial)
    /\ isinstance_int(ret.args[2].initial)
    => /\ Returned
       /\ ret.val.initial
              = int(Arithmetic(ret.op, ret.args[1].initial.n,
                               ret.args[2].initial.n))

\* Two unknowns with integer samples, one of them non-zero, have been
\* multiplied.
C5_Witness ==
    /\ ret.op = "mul"
    /\ Returned
    /\ IsUnknown(ret.args[1])
    /\ IsUnknown(ret.args[2])
    /\ isinstance_int(ret.args[1].initial)
    /\ isinstance_int(ret.args[2].initial)
    /\ ret.args[1].initial.n # 0

(***************************************************************************)
(* C6: the float witness flag.                                             *)
(***************************************************************************)
\* C6 as stated (its first half): with the float witness disabled, every
\* Value an operation has created has an absent float_initial.
C6_WitnessToggle_AsStated ==
    ~compute_float_initial =>
        /\ \A v \in values : v.float_initial = None
        /\ (isinstance_Value(ret.val) => ret.val.float_initial = None)

(***************************************************************************)
(* C7: sqrt of an unknown with an integer sample.                          *)
(***************************************************************************)
SqrtCall ==
    /\ ret.op = "sqrt"
    /\ IsUnknown(ret.args[1])
    /\ isinstance_int(ret.args[1].initial)

\* C7 as stated: sqrt of an unknown v with an integer sample appends
\* "<v>^1 - <result>^2", appends no equation "<sample> - <s>^2" for the
\* sample, and the result's sample is not a literal.
C7_Sqrt_AsStated ==
    SqrtCall =>
        /\ Returned
        /\ \E k \in 1..Appended :
              NewEquation(k) = str(ret.args[1]) \o "^1 - "
                                   \o str(ret.val) \o "^2"
        /\ ~\E k \in 1..Appended, s \in NewVars :
              NewEquation(k) = str(ret.args[1].initial) \o " - "
                                   \o Name(s) \o "^2"
        /\ ~isinstance_int(ret.val.initial)

\* C7: sqrt of an unknown v with an integer sample n allocates three
\* unknowns h, s, r in this order and appends three equations: "2*<h> - 1"
\* for the exponent, "<n> - <s>^2" for the sample, "<v>^1 - <r>^2" for the
\* result r, whose sample is the unknown s, itself without a sample.
C7_Sqrt ==
    SqrtCall =>
        /\ Returned
        /\ Allocated = 3
        /\ Appended = 3
        /\ NewEquation(1) = "2*" \o Name(ret.before.current_var) \o " - 1"
        /\ NewEquation(2) = str(ret.args[1].initial) \o " - "
                                \o Name(ret.before.current_var + 1) \o "^2"
        /\ NewEquation(3) = str(ret.args[1]) \o "^1 - "
                                \o str(ret.val) \o "^2"
        /\ ret.val.var = int(ret.before.current_var + 2)
        /\ IsUnknown(ret.val.initial)
        /\ ret.val.initial.var = int(ret.before.current_var + 1)
        /\ ret.val.initial.initial = None

\* sqrt of an unknown whose sample is 5 has returned.
C7_Witness == SqrtCall /\ Returned /\ ret.args[1].initial = int(5)

(***************************************************************************)
(* C9: is_zero on an unknown.                                              *)
(***************************************************************************)
\* C9 as stated: is_zero of an unknown v, whatever its sample, succeeds and
\* appends "<v>"; it appends one more equation, the text of v's sample,
\* exactly when that sample is a symbolic unknown, and nothing else
\* otherwise.
C9_IsZero_AsStated ==
    ret.op = "is_zero" /\ IsUnknown(ret.args[1]) =>
        /\ Returned
        /\ Appended >= 1
        /\ NewEquation(1) = str(ret.args[1])
        /\ IF IsUnknown(ret.args[1].initial)
           THEN Appended = 2 /\ NewEquation(2) = str(ret.args[1].initial)
           ELSE Appended = 1

(***************************************************************************)
(* C8: the first scenario, a distance asserted constant.                   *)
(***************************************************************************)
ResetStores == [current_var |-> 0, equations |-> <<>>]

\* line = LineAB(FixedPoint(-1, 0), FixedPoint(1, 0)), from a reset state.
scenario1_line == LineAB(FixedPoint(-1, 0), FixedPoint(1, 0), ResetStores)

\* X = FreePoint(0, 2)
scenario1_X == FreePoint(0, 2, StoresOf(scenario1_line))

\* d(X, line)
scenario1_d ==
    d(scenario1_X.val, scenario1_line.val, FALSE, StoresOf(scenario1_X))

\* The last call is the scenario's is_constant(d(X, line)).
Scenario1Call ==
    /\ ret.op = "is_constant"
    /\ ret.args = <<scenario1_d.val>>
    /\ ret.before = StoresOf(scenario1_d)
    /\ points = {scenario1_X.val}
    /\ lines = {scenario1_line.val}

\* C8 as stated: the scenario's is_constant appends as its last equation
\* "<distance> - 2", the distance's sample being the integer literal 2.
C8_Scenario1_AsStated ==
    Scenario1Call =>
        /\ Returned
        /\ ret.args[1].initial = int(2)
        /\ equations[Len(equations)] = str(ret.args[1]) \o " - 2"

\* C8: the scenario's is_constant appends as its last equation
\* "<distance> - <s>", s being the distance's sample, a symbolic unknown
\* without a sample allocated right before the distance (never the literal
\* 2); the run's ten equations are the ones listed.
C8_Scenario1 ==
    Scenario1Call =>
        /\ Returned
        /\ IsUnknown(ret.args[1].initial)
        /\ ret.args[1].initial.initial = None
        /\ ret.args[1].var.n = ret.args[1].initial.var.n + 1
        /\ equations[Len(equations)]
               = str(ret.args[1]) \o " - " \o str(ret.args[1].initial)
        /\ equations = << "a - -1 - c", "b - 0 - d", "c*0 - e", "d*-2 - f",
                          "e + f - g", "2*h - 1", "4 - i^2", "-4 - i*j",
                          "g - i*k", "k - j" >>

\* The scenario's is_constant has returned.
C8_Witness == Scenario1Call /\ Returned /\ Appended = 1

(***************************************************************************)
(* C10: Line.contains.                                                     *)
(***************************************************************************)
\* v = (p - self.o) * self.n of the last call, a contains.
contains_v == offset_dot_normal(ret.args[1], ret.args[2], ret.before)

\* C10 as stated: contains appends the dot product v as one equation, and
\* a second one, the text of v's sample, only when that sample is a
\* symbolic unknown; none when the sample is an integer literal or absent.
C10_Contains_AsStated ==
    ret.op = "contains" /\ Returned =>
        /\ Len(equations) > Len(contains_v.equations)
        /\ equations[Len(contains_v.equations) + 1] = str(contains_v.val)
        /\ IF IsUnknown(contains_v.val.initial)
           THEN /\ Len(equations) = Len(contains_v.equations) + 2
                /\ equations[Len(equations)] = str(contains_v.val.initial)
           ELSE Len(equations) = Len(contains_v.equations) + 1

(***************************************************************************)
(* C11: is_zero on a literal.                                              *)
(***************************************************************************)
\* The step is an is_zero call on a literal (a repeat of the state counts).
IsZeroOnLiteral == ret'.op = "is_zero" /\ IsLiteral(ret'.args[1])

\* C11: every is_zero call on a literal leaves the variable counter, the
\* equation store and the plot store as they were; on a literal whose
\* integer value is not zero it fails with the non-zero-constant error, and
\* on the literal 0 it returns.
C11_IsZeroOnLiteral ==
    [][IsZeroOnLiteral =>
        /\ current_var' = current_var
        /\ equations' = equations
        /\ plots' = plots
        /\ IF initial_as_int(ret'.args[1]) # 0
           THEN ret'.exc = "is_zero() call for a non-zero constant "
                               \o ToString(initial_as_int(ret'.args[1]))
                               \o " is not allowed"
           ELSE ret'.exc = "none"]_vars

\* is_zero(i(3)) has failed in a session that holds a plot.
C11_Witness ==
    /\ ret.op = "is_zero"
    /\ IsLiteral(ret.args[1])
    /\ initial_as_int(ret.args[1]) # 0
    /\ ~Returned
    /\ plots # <<>>

(***************************************************************************)
(* C12: is_constant.                                                       *)
(***************************************************************************)
\* C12: is_constant on a literal returns and appends nothing; on an unknown
\* with a sample it returns, allocates nothing and appends the one equation
\* '<v> - <v.initial>'; on an unknown without a sample it fails with the
\* unknown-value error and leaves the counter and the equations unchanged.
C12_IsConstant ==
    ret.op = "is_constant" =>
        IF IsLiteral(ret.args[1])
        THEN Returned /\ Allocated = 0 /\ Appended = 0
        ELSE IF ret.args[1].initial # None
        THEN /\ Returned
             /\ Allocated = 0
             /\ Appended = 1
             /\ NewEquation(1) =
                    str(ret.args[1]) \o " - " \o str(ret.args[1].initial)
        ELSE /\ ret.exc =
                    "is_constant() call for an \"unknown value\" is not allowed"
             /\ ret.before = Stores

\* is_constant has failed on an unknown without a sample.
C12_Witness ==
    /\ ret.op = "is_constant"
    /\ IsUnknown(ret.args[1])
    /\ ret.args[1].initial = None
    /\ ~Returned

(***************************************************************************)
(* C13: exponents that __pow__ rejects.                                    *)
(***************************************************************************)
UnsupportedPower == "Only constant integer powers are supported"

\* The last call was base ** p with p an integer literal that is not
\* positive.
NonPositivePowerCall ==
    /\ ret.op = "pow"
    /\ IsLiteral(ret.args[2])
    /\ initial_as_int(ret.args[2]) <= 0

\* The text "1 - <base>^<-p>*<r>" of the reciprocal equation; a literal
\* base appears raised to the power.
ReciprocalText(base, p, r) ==
    "1 - "
    \o (IF IsLiteral(base)
        THEN ToString(IntPow(initial_as_int(base), -initial_as_int(p)))
        ELSE str(base) \o "^" \o ToString(-initial_as_int(p)))
    \o "*" \o str(r)

\* C13 as stated: base ** p fails, with nothing allocated and nothing
\* appended, whenever p is neither a RationalValue nor a positive integer
\* literal.
C13_PowRejection_AsStated ==
    /\ ret.op = "pow"
    /\ ~isinstance_RationalValue(ret.args[2])
    /\ ~(IsLiteral(ret.args[2]) /\ initial_as_int(ret.args[2]) > 0)
    => ~Returned /\ Allocated = 0 /\ Appended = 0

\* C13: base ** p fails with the unsupported-power error exactly when p is
\* an unknown that is not a RationalValue, and then nothing is allocated or
\* appended.  An integer literal p <= 0 is accepted: the call allocates the
\* result r and appends "1 - <base>^<-p>*<r>" as its last equation; it
\* fails only with ZeroDivisionError, float witnesses being on and p
\* negative, and then with the stores unchanged.
C13_PowRejection ==
    ret.op = "pow" =>
        IF IsUnknown(ret.args[2]) /\ ~isinstance_RationalValue(ret.args[2])
        THEN ret.exc = UnsupportedPower /\ ret.before = Stores
        ELSE /\ ret.exc # UnsupportedPower
             /\ NonPositivePowerCall =>
                    IF Returned
                    THEN /\ IsUnknown(ret.val)
                         /\ ret.val.var = int(current_var - 1)
                         /\ Allocated >= 1
                         /\ Appended = Allocated
                         /\ NewEquation(Appended) =
                                ReciprocalText(ret.args[1], ret.args[2], ret.val)
                    ELSE /\ ret.exc = "ZeroDivisionError"
                         /\ compute_float_initial
                         /\ initial_as_int(ret.args[2]) < 0
                         /\ ret.before = Stores

\* An unknown has been raised to the literal power -1, and the call
\* returned.
C13_Witness ==
    /\ NonPositivePowerCall
    /\ initial_as_int(ret.args[2]) < 0
    /\ IsUnknown(ret.args[1])
    /\ Returned

(***************************************************************************)
(* C14: the identifiers the allocator hands out.                           *)
(***************************************************************************)
\* The identifiers the client holds: those of its unknowns and of the
\* coordinates of its free points.
HeldVars(vals, pts) ==
    {v.var.n : v \in vals} \cup {pt.x.var.n : pt \in pts}
                           \cup {pt.y.var.n : pt \in pts}

\* The identifiers of the symbolic samples of the client's unknowns.
SampleVars(vals) == {v.initial.var.n : v \in {w \in vals : IsUnknown(w.initial)}}

\* C14: a call (anything but the run boundary) starts at the counter the
\* previous call left and never lowers it; every identifier it takes, from
\* the old counter up to the new one, is handed out (it is a coordinate of
\* the new free point or occurs in an equation the call appended); an
\* unknown it returns is the last one taken; FreePoint(x, y) takes exactly
\* the next two, x's first and then y's, with samples x and y; and the
\* identifiers the client holds are distinct and below the counter.
C14_DenseIdentifiers ==
    [][ret'.op # "none" =>
        /\ ret'.before.current_var = current_var
        /\ current_var' >= current_var
        /\ \A v \in current_var .. current_var' - 1 :
              \/ /\ ret'.op = "FreePoint"
                 /\ int(v) \in {ret'.val.x.var, ret'.val.y.var}
              \/ \E k \in Len(equations) + 1 .. Len(equations') :
                     References(equations'[k], v)
        /\ ret'.op = "FreePoint" =>
              /\ ret'.exc = "none"
              /\ current_var' = current_var + 2
              /\ ret'.val.x.var = int(current_var)
              /\ ret'.val.y.var = int(current_var + 1)
              /\ ret'.val.x.initial = ret'.args[1]
              /\ ret'.val.y.initial = ret'.args[2]
              /\ equations' = equations
        /\ ret'.exc = "none" /\ IsUnknown(ret'.val) =>
              /\ current_var' > current_var
              /\ ret'.val.var = int(current_var' - 1)
        /\ HeldVars(values', points') \cup SampleVars(values')
              \subseteq 0 .. current_var' - 1
        /\ Cardinality(HeldVars(values', points'))
              = Cardinality(values') + 2 * Cardinality(points')]_vars

\* A free point has been made after other unknowns, and took the next two
\* identifiers.
C14_Witness ==
    /\ ret.op = "FreePoint"
    /\ ret.before.current_var > 0
    /\ ret.val.x.var = int(ret.before.current_var)
    /\ ret.val.y.var = int(ret.before.current_var + 1)
    /\ current_var = ret.before.current_var + 2

(***************************************************************************)
(* C15: the display names of unknowns.                                     *)
(***************************************************************************)
\* The largest counter value a naming session starts at.
MaxIdentifier == 52

\* A section of the test run starts: the equations are cleared and the
\* counter stands where the sections before left it.
NameInit ==
    /\ current_var \in 0 .. MaxIdentifier
    /\ equations = <<>>
    /\ plots = <<>>
    /\ compute_float_initial \in BOOLEAN
    /\ values = {}
    /\ points = {}
    /\ lines = {}
    /\ ret = NoCall

\* The section makes unknowns and binds them, which prints their names.
NameNext == NewVar \/ IsConstant

NameSpec == NameInit /\ [][NameNext]_vars

Letters ==
    << "a", "b", "c", "d", "e", "f", "g", "h", "i", "j", "k", "l", "m",
       "n", "o", "p", "q", "r", "s", "t", "u", "v", "w", "x", "y", "z" >>

\* The j-th lowercase letter followed by the decimal suffix k, which is
\* empty when k = 0.
LetterAndSuffix(k, j) ==
    Letters[j + 1] \o (IF k = 0 THEN "" ELSE ToString(k))

\* The identifiers handed out so far, and the next one.
Identifiers == 0 .. current_var

\* C15: identifier 26k + j (0 <= j <= 25) is displayed as the j-th lowercase
\* letter followed by the decimal suffix k, empty when k = 0; 0, 25, 26, 51
\* and 52 read 'a', 'z', 'a1', 'z1' and 'a2'; no two distinct identifiers
\* share a name; and the equation is_constant appends for an unknown starts
\* with that name.
C15_DisplayName ==
    /\ \A k \in 0 .. (current_var \div 26), j \in 0 .. 25 :
          26 * k + j \in Identifiers =>
              Name(26 * k + j) = LetterAndSuffix(k, j)
    /\ \A m \in Identifiers, n \in Identifiers :
          m # n => Name(m) # Name(n)
    /\ Name(0) = "a" /\ Name(25) = "z" /\ Name(26) = "a1"
    /\ Name(51) = "z1" /\ Name(52) = "a2"
    /\ ret.op = "is_constant" /\ IsUnknown(ret.args[1]) /\ Returned =>
          \E k \in 0 .. (current_var \div 26), j \in 0 .. 25 :
              /\ ret.args[1].var = int(26 * k + j)
              /\ NewEquation(1) = LetterAndSuffix(k, j) \o " - "
                                      \o str(ret.args[1].initial)

\* The unknown 52 has been bound to its sample 5, under the name a2.
C15_Witness ==
    /\ ret.op = "is_constant"
    /\ Returned
    /\ ret.args[1].var = int(52)
    /\ NewEquation(1) = "a2 - 5"

(***************************************************************************)
(* Arithmetic sessions: the value algebra alone, from an empty session or  *)
(* from one whose client kept a single derived unknown.                    *)
(***************************************************************************)
\* r = sqrt(new_var(x)) in a fresh run.
new_var_sqrt(x) ==
    sqrt(new_var(int(x), ResetStores).val, FALSE,
         StoresOf(new_var(int(x), ResetStores)))

\* The session is fresh, or the client made r = sqrt(new_var(x)) and kept
\* r alone.
ArithInit ==
    /\ compute_float_initial \in BOOLEAN
    /\ plots = <<>>
    /\ points = {}
    /\ lines = {}
    /\ ret = NoCall
    /\ \/ /\ current_var = 0
          /\ equations = <<>>
          /\ values = {}
       \/ \E x \in SampleInts :
             /\ ~Raised(new_var_sqrt(x))
             /\ current_var = new_var_sqrt(x).current_var
             /\ equations = new_var_sqrt(x).equations
             /\ values = {new_var_sqrt(x).val}

ArithNext ==
    \/ NewVar
    \/ Rational
    \/ Neg
    \/ Abs
    \/ Sqrt
    \/ Pow
    \/ Add
    \/ Sub
    \/ Mul
    \/ Div

ArithSpec == ArithInit /\ [][ArithNext]_vars

(***************************************************************************)
(* C16: elevation of unknown constants in binary operations.               *)
(***************************************************************************)
\* An unknown without a sample, and an unknown with one.
IsUnknownConstant(x) == IsUnknown(x) /\ x.initial = None

IsVariable(x) == IsUnknown(x) /\ x.initial # None

BinaryCall == ret.op \in {"add", "sub", "mul", "div"} /\ Returned

\* The result's sample is a fresh unknown s without a sample of its own,
\* taken before the result, and the first equation appended defines s as
\* the operation applied to x and y.
SampleIs(x, y) ==
    /\ IsUnknownConstant(ret.val.initial)
    /\ ret.val.initial.var = int(ret.before.current_var)
    /\ Allocated = 2
    /\ Appended = 2
    /\ NewEquation(1) = eq2(BinaryOp(ret.op, FALSE), x, y, ret.val.initial)

\* C16 as stated: with an unknown constant u as one operand, the result's
\* sample is present when the partner's sample is a symbolic unknown, and
\* absent when the partner is a literal, an unknown whose sample is an
\* integer literal, or an unknown constant.
C16_Elevation_AsStated ==
    /\ BinaryCall /\ IsUnknownConstant(ret.args[1]) =>
          IF IsUnknown(ret.args[2].initial)
          THEN SampleIs(ret.args[1], ret.args[2].initial)
          ELSE ret.val.initial = None
    /\ BinaryCall /\ IsUnknownConstant(ret.args[2]) =>
          IF IsUnknown(ret.args[1].initial)
          THEN SampleIs(ret.args[1].initial, ret.args[2])
          ELSE ret.val.initial = None

\* C16: with an unknown constant u as one operand of add, sub, mul or div,
\* u is elevated exactly when the partner is an unknown with a sample, be
\* that sample an integer literal or a symbolic unknown; the result's
\* sample is then a fresh unknown defined by the same operation on u and
\* the partner's sample, in the operands' order.  When the partner is a
\* literal or an unknown constant, the result's sample is absent and one
\* unknown is allocated.  The same holds for u on the left and on the right.
C16_Elevation ==
    /\ BinaryCall /\ IsUnknownConstant(ret.args[1]) =>
          IF IsVariable(ret.args[2])
          THEN SampleIs(ret.args[1], i(ret.args[2].initial))
          ELSE ret.val.initial = None /\ Allocated = 1 /\ Appended = 1
    /\ BinaryCall /\ IsUnknownConstant(ret.args[2]) =>
          IF IsVariable(ret.args[1])
          THEN SampleIs(i(ret.args[1].initial), ret.args[2])
          ELSE ret.val.initial = None /\ Allocated = 1 /\ Appended = 1

\* An unknown constant has been combined with an unknown whose sample is a
\* symbolic unknown, on either side.
C16_Witness ==
    /\ BinaryCall
    /\ \/ IsUnknownConstant(ret.args[1]) /\ IsUnknown(ret.args[2].initial)
       \/ IsUnknownConstant(ret.args[2]) /\ IsUnknown(ret.args[1].initial)
    /\ IsUnknown(ret.val.initial)

(***************************************************************************)
(* C17: depth of sample chains.                                            *)
(***************************************************************************)
\* x's sample is absent, an integer, or an unknown without a sample.
SampleChain(x) ==
    \/ x.initial = None
    \/ isinstance_int(x.initial)
    \/ IsUnknownConstant(x.initial)

OperatorCall ==
    ret.op \in {"neg", "abs", "pow", "add", "sub", "mul", "div"}

\* C17: every Value the engine has returned has a sample that is absent, an
\* integer, or an unknown whose own sample is absent; one application of a
\* unary or binary operator allocates at most two unknowns, and when it
\* allocates two, the first is the result's sample and the second the
\* result, and the sample's equation is appended before the result's.
C17_SampleChains ==
    /\ \A x \in values : SampleChain(x)
    /\ Returned /\ isinstance_Value(ret.val) => SampleChain(ret.val)
    /\ OperatorCall =>
          /\ Allocated <= 2
          /\ Allocated = 2 =>
                /\ Returned
                /\ IsUnknownConstant(ret.val.initial)
                /\ ret.val.initial.var = int(ret.before.current_var)
                /\ ret.val.var = int(ret.before.current_var + 1)
                /\ Appended = 2
                /\ References(NewEquation(1), ret.before.current_var)
                /\ ~References(NewEquation(1), ret.before.current_var + 1)
                /\ References(NewEquation(2), ret.before.current_var + 1)

\* An operator has been applied to an unknown whose sample is a symbolic
\* unknown, and allocated the sample's unknown and the result's.
C17_Witness ==
    /\ OperatorCall
    /\ Returned
    /\ IsUnknown(ret.args[1].initial)
    /\ Allocated = 2

====
